---- MODULE Spec2Model ----
(***************************************************************************)
(* State-machine model of light_monitor.py: the serial sample reader, the  *)
(* line parser, the minute aggregator and the hourly batch writer driven   *)
(* by the main loop.                                                       *)
(*                                                                         *)
(* Representation.                                                         *)
(*  - A raw serial line is the sequence of the characters its bytes      *)
(*    encode, each a one-character string; the element BadByte stands for  *)
(*    a byte that is not valid UTF-8.                                      *)
(*  - A Python float is [type |-> "float", kind |-> k, halves |-> h]: inf,  *)
(*    nan, or the finite value h/2 (a field parsed from a line is a whole  *)
(*    number, finite ones are carried up to 2^30; a median of two can end  *)
(*    in .5).                                                              *)
(*  - The lines are written in ASCII digits and letters, ';' and the white *)
(*    space of Unicode; a character without a TLA+ escape is the element   *)
(*    that spells its Python escape: "\\x0b", "\\xa0", "\\u2003".          *)
(*  - A Python str is [type |-> "str", chars |-> <<...>>]; the string made *)
(*    by strftime keeps its zero-padded fields as numbers, so that text    *)
(*    order is the lexicographic order of the tuple.                       *)
(*  - The wall clock `now` counts whole seconds since the process start.   *)
(***************************************************************************)
EXTENDS Integers, Sequences, FiniteSets, TLC

VARIABLES pc, now, exit_status, exception, serial_device, config_data,
          LAST_LIGHT_SWITCH_STATE, hour_loop_start_time,
          minute_loop_start_time, data_from_last_minute, data_from_last_hour,
          arduino_raw_data, data, aggregated_data, file_name, files, appended

vars == <<pc, now, exit_status, exception, serial_device, config_data,
          LAST_LIGHT_SWITCH_STATE, hour_loop_start_time,
          minute_loop_start_time, data_from_last_minute, data_from_last_hour,
          arduino_raw_data, data, aggregated_data, file_name, files, appended>>

(***************************************************************************)
(* Program constants                                                       *)
(***************************************************************************)
CSV_FIELD_NAMES == <<"dateTime", "lights_on_time", "lights_off_time">>

FILE_WRITE_DELAY_MINS == 3

POSSIBLE_DEVICE_PATHS ==
    <<"/dev/ttyACM0", "/dev/ttyACM1", "/dev/cu.usbmodem2401",
      "/dev/cu.usbmodem2301", "COM1", "COM2", "COM3", "COM4", "COM5">>

MINUTE_LOOP_SECONDS == 60

SLEEP_BETWEEN_READS == 1

SLEEP_WHEN_DISABLED == 3600

SECONDS_PER_DAY == 86400

(***************************************************************************)
(* Bounds of the model                                                     *)
(***************************************************************************)
MaxBuffer == 2      \* records accepted into one Minute Buffer
MaxCycles == 2      \* minute cycles aggregated in one run
MaxNow == 86800     \* last second of the wall clock at which a cycle starts
MaxWindow == 62     \* longest minute window followed, in seconds

(***************************************************************************)
(* Python values                                                           *)
(***************************************************************************)
None == [type |-> "NoneType"]
Unbound == [type |-> "unbound"]
Float(v) == [type |-> "float", kind |-> "finite", halves |-> 2 * v]
FloatHalves(h) == [type |-> "float", kind |-> "finite", halves |-> h]
Inf == [type |-> "float", kind |-> "inf", halves |-> 0]
NaN == [type |-> "float", kind |-> "nan", halves |-> 0]
PyInt(v) == [type |-> "int", val |-> v]
Str(cs) == [type |-> "str", chars |-> cs]
Bytes(bs) == [type |-> "bytes", chars |-> bs]
Exception(e) == [type |-> "exception", name |-> e]
List(xs) == [type |-> "list", items |-> xs]
Raise(e) == [type |-> "raise", exc |-> e]
Return(v) == [type |-> "return", value |-> v]

BadByte == "\\xff"
\* the characters float() ignores around a literal: the six of ASCII and the
\* white space of Unicode beyond ASCII
Whitespace ==
    {" ", "\t", "\n", "\r", "\\x0b", "\\x0c", "\\x85", "\\xa0", "\\u1680",
     "\\u2000", "\\u2001", "\\u2002", "\\u2003", "\\u2004", "\\u2005",
     "\\u2006", "\\u2007", "\\u2008", "\\u2009", "\\u200a", "\\u2028",
     "\\u2029", "\\u202f", "\\u205f", "\\u3000"}
Digits == <<"0", "1", "2", "3", "4", "5", "6", "7", "8", "9">>
DigitSet == {Digits[i] : i \in 1..10}
DigitValue(c) == (CHOOSE i \in 1..10 : Digits[i] = c) - 1

\* str.strip(chars): drop leading and trailing characters that are in chars
lstrip(s, chars) ==
    IF \A i \in 1..Len(s) : s[i] \in chars THEN <<>>
    ELSE LET first == CHOOSE i \in 1..Len(s) :
                          s[i] \notin chars /\ \A j \in 1..(i - 1) : s[j] \in chars
         IN SubSeq(s, first, Len(s))

rstrip(s, chars) ==
    IF \A i \in 1..Len(s) : s[i] \in chars THEN <<>>
    ELSE LET last == CHOOSE i \in 1..Len(s) :
                         s[i] \notin chars /\ \A j \in (i + 1)..Len(s) : s[j] \in chars
         IN SubSeq(s, 1, last)

strip(s, chars) == rstrip(lstrip(s, chars), chars)

\* str.split(sep): the parts between the separators, empty parts included
RECURSIVE split(_, _)
split(s, sep) ==
    IF \E i \in 1..Len(s) : s[i] = sep
    THEN LET i == CHOOSE j \in 1..Len(s) :
                     s[j] = sep /\ \A k \in 1..(j - 1) : s[k] /= sep
         IN <<SubSeq(s, 1, i - 1)>> \o split(SubSeq(s, i + 1, Len(s)), sep)
    ELSE <<s>>

RECURSIVE DigitsToNat(_)
DigitsToNat(s) ==
    IF s = <<>> THEN 0
    ELSE 10 * DigitsToNat(SubSeq(s, 1, Len(s) - 1)) + DigitValue(s[Len(s)])

\* the lower-case form of the letters that float() looks for
Lower(c) ==
    CASE c = "A" -> "a" [] c = "E" -> "e" [] c = "F" -> "f" [] c = "I" -> "i"
      [] c = "N" -> "n" [] c = "T" -> "t" [] c = "Y" -> "y" [] OTHER -> c

IsDigitRun(s) == s /= <<>> /\ \A i \in 1..Len(s) : s[i] \in DigitSet

RECURSIVE Pow10(_)
Pow10(n) == IF n = 0 THEN 1 ELSE 10 * Pow10(n - 1)

\* the decimal digits of 2^1024 - 2^970, the least whole number that float()
\* rounds to inf instead of to the largest finite float
OverflowDigits ==
    <<1, 7, 9, 7, 6, 9, 3, 1, 3, 4, 8, 6, 2, 3, 1, 5, 8, 0, 7, 9, 3, 7, 2, 8, 9, 7, 1, 4, 0, 5, 3, 0,
       3, 4, 1, 5, 0, 7, 9, 9, 3, 4, 1, 3, 2, 7, 1, 0, 0, 3, 7, 8, 2, 6, 9, 3, 6, 1, 7, 3, 7, 7, 8, 9,
       8, 0, 4, 4, 4, 9, 6, 8, 2, 9, 2, 7, 6, 4, 7, 5, 0, 9, 4, 6, 6, 4, 9, 0, 1, 7, 9, 7, 7, 5, 8, 7,
       2, 0, 7, 0, 9, 6, 3, 3, 0, 2, 8, 6, 4, 1, 6, 6, 9, 2, 8, 8, 7, 9, 1, 0, 9, 4, 6, 5, 5, 5, 5, 4,
       7, 8, 5, 1, 9, 4, 0, 4, 0, 2, 6, 3, 0, 6, 5, 7, 4, 8, 8, 6, 7, 1, 5, 0, 5, 8, 2, 0, 6, 8, 1, 9,
       0, 8, 9, 0, 2, 0, 0, 0, 7, 0, 8, 3, 8, 3, 6, 7, 6, 2, 7, 3, 8, 5, 4, 8, 4, 5, 8, 1, 7, 7, 1, 1,
       5, 3, 1, 7, 6, 4, 4, 7, 5, 7, 3, 0, 2, 7, 0, 0, 6, 9, 8, 5, 5, 5, 7, 1, 3, 6, 6, 9, 5, 9, 6, 2,
       2, 8, 4, 2, 9, 1, 4, 8, 1, 9, 8, 6, 0, 8, 3, 4, 9, 3, 6, 4, 7, 5, 2, 9, 2, 7, 1, 9, 0, 7, 4, 1,
       6, 8, 4, 4, 4, 3, 6, 5, 5, 1, 0, 7, 0, 4, 3, 4, 2, 7, 1, 1, 5, 5, 9, 6, 9, 9, 5, 0, 8, 0, 9, 3,
       0, 4, 2, 8, 8, 0, 1, 7, 7, 9, 0, 4, 1, 7, 4, 4, 9, 7, 7, 9, 2>>

\* the value of <mantissa>e<exponent>: zero for a zero mantissa, inf from
\* 2^1024 - 2^970 on, and else the whole number itself
Scaled(mantissa, exponent) ==
    LET m == lstrip(mantissa, {"0"})
        e == lstrip(exponent, {"0"})
        width == Len(OverflowDigits)
        padded == [i \in 1..width |->
                      IF i <= Len(m) THEN DigitValue(m[i]) ELSE 0]
        overflows ==
            \/ padded = OverflowDigits
            \/ \E i \in 1..width :
                   /\ padded[i] > OverflowDigits[i]
                   /\ \A j \in 1..(i - 1) : padded[j] = OverflowDigits[j]
    IN IF m = <<>> THEN Float(0)
       ELSE IF Len(e) > 3 \/ Len(m) + DigitsToNat(e) > width THEN Inf
       ELSE IF Len(m) + DigitsToNat(e) = width /\ overflows THEN Inf
       ELSE Float(DigitsToNat(m) * Pow10(DigitsToNat(e)))

\* float(x) for text in digits, letters and white space: the white space
\* around the literal is ignored; the literal is inf, infinity or nan in any
\* case, a run of digits, or a run of digits, e or E, and a run of digits
float(x) ==
    LET stripped == strip(x, Whitespace)
        lit == [i \in 1..Len(stripped) |-> Lower(stripped[i])]
    IN IF lit = <<"i", "n", "f">>
          \/ lit = <<"i", "n", "f", "i", "n", "i", "t", "y">>
       THEN Return(Inf)
       ELSE IF lit = <<"n", "a", "n">> THEN Return(NaN)
       ELSE IF IsDigitRun(lit) THEN Return(Scaled(lit, <<>>))
       ELSE IF \E k \in 1..Len(lit) :
                   /\ lit[k] = "e"
                   /\ IsDigitRun(SubSeq(lit, 1, k - 1))
                   /\ IsDigitRun(SubSeq(lit, k + 1, Len(lit)))
       THEN LET k == CHOOSE j \in 1..Len(lit) : lit[j] = "e"
            IN Return(Scaled(SubSeq(lit, 1, k - 1),
                             SubSeq(lit, k + 1, Len(lit))))
       ELSE Raise("ValueError")

\* str(b, 'utf-8')
decode_utf8(b) ==
    IF \E i \in 1..Len(b.chars) : b.chars[i] = BadByte
    THEN Raise("UnicodeDecodeError") ELSE Return(Str(b.chars))

\* parse_arduino_data: None when float() rejects a field; when decoding
\* fails the handler's print reads raw_data, which was never bound
parse_arduino_data(raw) ==
    LET decoded == decode_utf8(raw)
    IN IF decoded.type = "raise"
       THEN Raise("UnboundLocalError")
       ELSE LET parts == split(strip(decoded.value.chars, {"\r", "\n"}), ";")
                floats == [i \in 1..Len(parts) |-> float(parts[i])]
            IN IF \E i \in 1..Len(parts) : floats[i].type = "raise"
               THEN Return(None)
               ELSE Return(List([i \in 1..Len(parts) |-> floats[i].value]))

(***************************************************************************)
(* Clock and time stamps                                                   *)
(***************************************************************************)
DateTime(t) == [type |-> "datetime", seconds |-> t]

\* (a - b).seconds of two datetimes a >= b: the seconds component of the
\* timedelta, which leaves the whole days out
timedelta_seconds(a, b) == (a.seconds - b.seconds) % SECONDS_PER_DAY

\* the calendar fields of the clock; the process starts on 2024-01-01 00:00
DateFields(t) ==
    <<2024, 1, 1 + (t \div SECONDS_PER_DAY), (t % SECONDS_PER_DAY) \div 3600,
      (t % 3600) \div 60, t % 60>>

\* strftime("%Y_%m_%d_%H_%M_%S.%f")
formatted_time(t) == Str(DateFields(t) \o <<0>>)

\* strftime("%Y%m%d_%H_%M_%S")
curr_time(t) == Str(DateFields(t))

(***************************************************************************)
(* Sample Reader                                                           *)
(***************************************************************************)
Min2(a, b) == IF a <= b THEN a ELSE b

\* dict(zip(keys, values)): pairs up to the shorter length, a later pair
\* replacing an earlier one with the same key
dict_zip(keys, values) ==
    LET n == Min2(Len(keys), Len(values))
    IN [k \in {keys[i] : i \in 1..n} |->
           values[CHOOSE i \in 1..n :
                     keys[i] = k /\ \A j \in (i + 1)..n : keys[j] /= k]]

\* get_arduino_data: read is the outcome of serial_device.readline(), t the
\* clock when the call starts
get_arduino_data(read, t) ==
    IF read.type = "raise" THEN Return(None)
    ELSE LET parsed == parse_arduino_data(read.value)
         IN IF parsed.type = "raise" THEN parsed
            ELSE IF parsed.value = None
                    \/ Len(parsed.value.items) /= Len(CSV_FIELD_NAMES) - 1
            THEN Return(None)
            ELSE Return(dict_zip(CSV_FIELD_NAMES,
                                 Append(parsed.value.items,
                                        formatted_time(t))))

(***************************************************************************)
(* Minute Aggregator                                                       *)
(***************************************************************************)
RECURSIVE NatToDigits(_)
NatToDigits(n) ==
    IF n < 10 THEN <<Digits[n + 1]>>
    ELSE NatToDigits(n \div 10) \o <<Digits[(n % 10) + 1]>>

\* str(x) of a float or of a str
str(x) ==
    CASE x.type = "float" /\ x.kind = "inf" -> Str(<<"i", "n", "f">>)
      [] x.type = "float" /\ x.kind = "nan" -> Str(<<"n", "a", "n">>)
      [] x.type = "float" /\ x.kind = "finite" ->
           Str(NatToDigits(x.halves \div 2) \o
               <<".", IF x.halves % 2 = 0 THEN "0" ELSE "5">>)
      [] x.type = "int" -> Str(NatToDigits(x.val))
      [] x.type = "str" -> x
      [] x.type = "NoneType" -> Str(<<"N", "o", "n", "e">>)

\* order of two strings of equal length, character by character
RECURSIVE SeqLeq(_, _)
SeqLeq(a, b) ==
    IF a = <<>> \/ b = <<>> THEN a = <<>>
    ELSE IF Head(a) = Head(b) THEN SeqLeq(Tail(a), Tail(b))
    ELSE Head(a) < Head(b)

\* order of two floats that are not nan
FloatLeq(x, y) ==
    IF y.kind = "inf" THEN TRUE
    ELSE IF x.kind = "inf" THEN FALSE
    ELSE x.halves <= y.halves

ValueLeq(x, y) ==
    IF x.type = "float" THEN FloatLeq(x, y) ELSE SeqLeq(x.chars, y.chars)

\* df[field]: the column of a frame built from a list of dicts
HasColumn(records, field) ==
    \E i \in 1..Len(records) : field \in DOMAIN records[i]

Column(records, field) == [i \in 1..Len(records) |-> records[i][field]]

IsNumeric(col) == \A i \in 1..Len(col) : col[i].type = "float"

\* the values a reduction looks at: nan is skipped in a numeric column
SkipNA(col) ==
    SelectSeq(col, LAMBDA v : ~(v.type = "float" /\ v.kind = "nan"))

\* Series.min(): nan when nothing is left after skipping nan
series_min(col) ==
    LET vals == SkipNA(col)
    IN IF vals = <<>> THEN Return(NaN)
       ELSE Return(vals[CHOOSE i \in 1..Len(vals) :
                           \A j \in 1..Len(vals) : ValueLeq(vals[i], vals[j])])

\* Series.max()
series_max(col) ==
    LET vals == SkipNA(col)
    IN IF vals = <<>> THEN Return(NaN)
       ELSE Return(vals[CHOOSE i \in 1..Len(vals) :
                           \A j \in 1..Len(vals) : ValueLeq(vals[j], vals[i])])

RECURSIVE SortFloats(_)
SortFloats(fs) ==
    IF fs = <<>> THEN <<>>
    ELSE LET i == CHOOSE k \in 1..Len(fs) :
                     \A j \in 1..Len(fs) : FloatLeq(fs[k], fs[j])
         IN <<fs[i]>> \o
            SortFloats(SubSeq(fs, 1, i - 1) \o SubSeq(fs, i + 1, Len(fs)))

\* the mean of two floats that are not nan
Mean2(x, y) ==
    IF x.kind = "inf" \/ y.kind = "inf" THEN Inf
    ELSE FloatHalves((x.halves + y.halves) \div 2)

\* Series.median(): nan is skipped, then the middle value or the mean of the
\* two middle values; a column of strings cannot be converted to numbers
series_median(col) ==
    IF ~IsNumeric(col) THEN Raise("TypeError")
    ELSE LET s == SortFloats(SkipNA(col))
             n == Len(s)
         IN IF n = 0 THEN Return(NaN)
            ELSE IF n % 2 = 1 THEN Return(s[(n + 1) \div 2])
            ELSE Return(Mean2(s[n \div 2], s[(n \div 2) + 1]))

STATS == <<"min", "max", "median">>

\* f"{field}_{stat}"
AggKey(field, stat) ==
    CASE field = "lights_on_time" /\ stat = "min" -> "lights_on_time_min"
      [] field = "lights_on_time" /\ stat = "max" -> "lights_on_time_max"
      [] field = "lights_on_time" /\ stat = "median" -> "lights_on_time_median"
      [] field = "lights_off_time" /\ stat = "min" -> "lights_off_time_min"
      [] field = "lights_off_time" /\ stat = "max" -> "lights_off_time_max"
      [] field = "lights_off_time" /\ stat = "median" -> "lights_off_time_median"
      [] field = "dateTime" /\ stat = "min" -> "dateTime_min"
      [] field = "dateTime" /\ stat = "max" -> "dateTime_max"
      [] field = "dateTime" /\ stat = "median" -> "dateTime_median"

\* the fields the aggregation loop visits, in schema order
AggFields ==
    SelectSeq(CSV_FIELD_NAMES, LAMBDA f : f /= "dateTime")

\* the assignments of the aggregation loop in execution order
AggJobs ==
    [n \in 1..(Len(AggFields) * Len(STATS)) |->
        [field |-> AggFields[((n - 1) \div Len(STATS)) + 1],
         stat |-> STATS[((n - 1) % Len(STATS)) + 1]]]

\* one assignment of the loop: str(df[field].<stat>())
AggValue(records, job) ==
    IF ~HasColumn(records, job.field) THEN Raise("KeyError")
    ELSE LET col == Column(records, job.field)
             r == CASE job.stat = "min" -> series_min(col)
                    [] job.stat = "max" -> series_max(col)
                    [] job.stat = "median" -> series_median(col)
         IN IF r.type = "raise" THEN r ELSE Return(str(r.value))

\* data_aggregation: the assignments made before the first one that raises
\* (the handler only prints), then the aggregation time under dateTime
data_aggregation(list_of_data_points, t) ==
    LET n == Len(AggJobs)
        failed == {i \in 1..n :
                     AggValue(list_of_data_points, AggJobs[i]).type = "raise"}
        done == {i \in 1..n : \A j \in failed : i < j}
        keys == {AggKey(AggJobs[i].field, AggJobs[i].stat) : i \in done}
    IN [k \in keys \cup {"dateTime"} |->
           IF k = "dateTime" THEN DateTime(t)
           ELSE LET i == CHOOSE j \in done :
                             AggKey(AggJobs[j].field, AggJobs[j].stat) = k
                IN AggValue(list_of_data_points, AggJobs[i]).value]

(***************************************************************************)
(* Inputs of a run                                                         *)
(***************************************************************************)
\* lines the device can send (readline returns b"" when the read times out)
LineOk == <<"5", "0", ";", "3", "0", "0", "\r", "\n">>
LineNotNumeric == <<"5", "0", ";", "a", "b", "c">>
LineEmpty == <<>>
LineShort == <<"5", "0", "\r", "\n">>
LineBadBytes == <<BadByte, "5", "0">>

RawLines ==
    {LineOk, LineNotNumeric, LineEmpty, LineShort, LineBadBytes}

\* outcomes of serial_device.readline()
ReadOutcomes ==
    {Return(Bytes(l)) : l \in RawLines} \cup {Raise("SerialException")}

\* outcomes of polling serial_device.in_waiting until it is not 0
WaitOutcomes == {Return(PyInt(1)), Raise("SerialException")}

\* wall-clock seconds a blocking step can take
WaitDelays == {0, 2 * MINUTE_LOOP_SECONDS, SECONDS_PER_DAY}
ReadDelays == {0, MINUTE_LOOP_SECONDS}

\* the device paths that open, for the runs considered
OpenablePaths == {{}, {2, 5}}

\* configurations: a key missing from the mapping is not in its domain
BaseConfig(recording) ==
    [k \in {"dataReadingAndSaving", "cage_id", "bird_name",
            "dataOutputBasePath"} |->
        CASE k = "dataReadingAndSaving" -> recording
          [] k = "cage_id" -> PyInt(7)
          [] k = "bird_name" -> Str(<<"b">>)
          [] k = "dataOutputBasePath" -> Str(<<"o">>)]

WithModes(base, modes) ==
    [k \in DOMAIN base \cup DOMAIN modes |->
        IF k \in DOMAIN modes THEN modes[k] ELSE base[k]]

ADate == Str(<<"2", "0", "2", "4", "-", "0", "3", "-", "0", "1">>)

CfgManual ==
    WithModes(BaseConfig(TRUE),
              [sunrise |-> PyInt(0), sunset |-> PyInt(0),
               stable_date |-> None, days_offset |-> None])
CfgStableOnly == WithModes(BaseConfig(TRUE), [stable_date |-> ADate])
CfgStable ==
    WithModes(BaseConfig(TRUE),
              [sunrise |-> None, sunset |-> None, stable_date |-> ADate,
               days_offset |-> PyInt(2)])
CfgOffset ==
    WithModes(BaseConfig(TRUE),
              [sunrise |-> None, sunset |-> None, stable_date |-> None,
               days_offset |-> PyInt(2)])
CfgNoMode ==
    WithModes(BaseConfig(TRUE),
              [sunrise |-> None, sunset |-> None, stable_date |-> None,
               days_offset |-> None])
CfgDisabled == WithModes(BaseConfig(FALSE), [days_offset |-> PyInt(2)])

Configs ==
    {CfgManual, CfgStableOnly, CfgStable, CfgOffset, CfgNoMode, CfgDisabled}

\* what handle_lights returns
LightStates == {"on"}

(***************************************************************************)
(* Startup                                                                 *)
(***************************************************************************)
Init ==
    /\ pc = "connect"
    /\ now = 0
    /\ exit_status = None
    /\ exception = None
    /\ serial_device = Unbound
    /\ config_data \in Configs
    /\ LAST_LIGHT_SWITCH_STATE = None
    /\ hour_loop_start_time = Unbound
    /\ minute_loop_start_time = Unbound
    /\ data_from_last_minute = <<>>
    /\ data_from_last_hour = <<>>
    /\ arduino_raw_data = Unbound
    /\ data = Unbound
    /\ aggregated_data = Unbound
    /\ file_name = Unbound
    /\ files = <<>>
    /\ appended = <<>>

\* get_serial_device: the first candidate path that opens
get_serial_device(openable) ==
    IF \E i \in 1..Len(POSSIBLE_DEVICE_PATHS) : i \in openable
    THEN Return(POSSIBLE_DEVICE_PATHS[
                    CHOOSE i \in 1..Len(POSSIBLE_DEVICE_PATHS) :
                        i \in openable /\ \A j \in 1..(i - 1) : j \notin openable])
    ELSE Raise("Exception")

\* sys.exit(1)
Exit1 ==
    /\ pc' = "exited"
    /\ exit_status' = PyInt(1)

\* an exception that no handler catches ends the process
Uncaught(e) ==
    /\ pc' = "crashed"
    /\ exit_status' = PyInt(1)
    /\ exception' = Exception(e)

\* Part 1: connect to the serial device
Connect ==
    /\ pc = "connect"
    /\ \E openable \in OpenablePaths :
          LET r == get_serial_device(openable)
          IN IF r.type = "raise"
             THEN Exit1 /\ UNCHANGED serial_device
             ELSE pc' = "location" /\ serial_device' = r.value
                  /\ UNCHANGED exit_status
    /\ UNCHANGED <<now, exception, config_data, LAST_LIGHT_SWITCH_STATE,
                   hour_loop_start_time, minute_loop_start_time,
                   data_from_last_minute, data_from_last_hour,
                   arduino_raw_data, data, aggregated_data, file_name, files,
                   appended>>

\* Part 4: the location object, then the batch and its start time
InitLocation ==
    /\ pc = "location"
    /\ \E ok \in BOOLEAN :
          IF ok
          THEN /\ pc' = "wait_input"
               /\ data_from_last_hour' = <<>>
               /\ hour_loop_start_time' = DateTime(now)
               /\ UNCHANGED exit_status
          ELSE /\ Exit1
               /\ UNCHANGED <<data_from_last_hour, hour_loop_start_time>>
    /\ UNCHANGED <<now, exception, serial_device, config_data,
                   LAST_LIGHT_SWITCH_STATE, minute_loop_start_time,
                   data_from_last_minute, arduino_raw_data, data,
                   aggregated_data, file_name, files, appended>>

(***************************************************************************)
(* Main loop                                                               *)
(***************************************************************************)
\* config_data.get(key, default)
config_get(config, key, default) ==
    IF key \in DOMAIN config THEN config[key] ELSE default

\* the busy wait for input, handle_lights, then the start of a minute window;
\* with recording off the cycle is a sleep of one hour.  No handler encloses
\* the wait: when in_waiting raises, the process ends
StartCycle ==
    /\ pc = "wait_input"
    /\ \E d \in WaitDelays, in_waiting \in WaitOutcomes :
          /\ now + d <= MaxNow
          /\ IF in_waiting.type = "raise"
             THEN /\ Uncaught(in_waiting.exc)
                  /\ now' = now + d
                  /\ UNCHANGED <<LAST_LIGHT_SWITCH_STATE,
                                 data_from_last_minute,
                                 minute_loop_start_time>>
             ELSE \E light \in LightStates :
                     /\ LAST_LIGHT_SWITCH_STATE' = light
                     /\ data_from_last_minute' = <<>>
                     /\ minute_loop_start_time' = DateTime(now + d)
                     /\ UNCHANGED <<exit_status, exception>>
                     /\ IF config_data["dataReadingAndSaving"]
                        THEN /\ Len(appended) < MaxCycles
                             /\ now' = now + d
                             /\ pc' = "minute_loop"
                        ELSE /\ now + d + SLEEP_WHEN_DISABLED <= MaxNow
                             /\ now' = now + d + SLEEP_WHEN_DISABLED
                             /\ pc' = "wait_input"
    /\ UNCHANGED <<serial_device, config_data, hour_loop_start_time,
                   data_from_last_hour, arduino_raw_data, data,
                   aggregated_data, file_name, files, appended>>

\* variant: the rejection only skips the append, the test still runs
ReachesExitTest_Always(sample) == TRUE

\* `if data is None: continue`: a rejected sample skips the rest of the
\* iteration, the test that ends the window included
ReachesExitTest(sample) == sample /= None

\* the test that ends the minute window
MinuteOver(t, start) ==
    timedelta_seconds(DateTime(t), start) >= MINUTE_LOOP_SECONDS

\* one iteration of the minute loop: a Sample Reader call, then for an
\* accepted sample the append, the elapsed-time test and the sleep
MinuteIteration ==
    /\ pc = "minute_loop"
    /\ \E read \in ReadOutcomes, d \in ReadDelays :
          LET r == get_arduino_data(read, now)
              t == now + d
          IN /\ t - minute_loop_start_time.seconds <= MaxWindow
             /\ arduino_raw_data' =
                    IF read.type = "raise" THEN Unbound ELSE read.value
             /\ IF r.type = "raise"
                THEN /\ Uncaught(r.exc)
                     /\ now' = t
                     /\ UNCHANGED <<data, data_from_last_minute>>
                ELSE /\ data' = r.value
                     /\ UNCHANGED <<exit_status, exception>>
                     /\ IF r.value = None
                        THEN UNCHANGED data_from_last_minute
                        ELSE /\ Len(data_from_last_minute) < MaxBuffer
                             /\ data_from_last_minute' =
                                    Append(data_from_last_minute, r.value)
                     /\ IF ~ReachesExitTest(r.value)
                        THEN now' = t /\ pc' = "minute_loop"
                        ELSE IF MinuteOver(t, minute_loop_start_time)
                        THEN now' = t /\ pc' = "aggregate"
                        ELSE /\ now' = t + SLEEP_BETWEEN_READS
                             /\ pc' = "minute_loop"
    /\ UNCHANGED <<serial_device, config_data, LAST_LIGHT_SWITCH_STATE,
                   hour_loop_start_time, minute_loop_start_time,
                   data_from_last_hour, aggregated_data, file_name, files,
                   appended>>

\* the minute's samples are aggregated and the result joins the batch
Aggregate ==
    /\ pc = "aggregate"
    /\ aggregated_data' = data_aggregation(data_from_last_minute, now)
    /\ data_from_last_hour' = Append(data_from_last_hour, aggregated_data')
    /\ appended' = Append(appended, aggregated_data')
    /\ pc' = "flush_check"
    /\ UNCHANGED <<now, exit_status, exception, serial_device, config_data,
                   LAST_LIGHT_SWITCH_STATE, hour_loop_start_time,
                   minute_loop_start_time, data_from_last_minute,
                   arduino_raw_data, data, file_name, files>>

\* minutes_since_start >= FILE_WRITE_DELAY_MINS
FlushDue(t, start) ==
    timedelta_seconds(DateTime(t), start) >= FILE_WRITE_DELAY_MINS * 60

\* the name built by the branch that the configuration selects; the name of
\* an earlier flush stays when no branch is taken
FileName(config, t, previous) ==
    LET days_offset == config_get(config, "days_offset", PyInt(0))
        stable_date == config_get(config, "stable_date", PyInt(0))
        sunrise == config_get(config, "sunrise", PyInt(0))
        sunset == config_get(config, "sunset", PyInt(0))
        name(suffix, value) ==
            [cage_id |-> str(config["cage_id"]),
             bird_name |-> config["bird_name"],
             curr_time |-> curr_time(t), suffix |-> suffix, value |-> value]
    IN IF sunrise /= None /\ sunset /= None
       THEN name("manually_set", None)
       ELSE IF stable_date /= None
       THEN name("stable_date", str(stable_date))
       ELSE IF days_offset.type = "int"
       THEN name("Days_offset", str(days_offset))
       ELSE previous

\* variant: the batch is not reset
BatchAfterFlush_Kept(batch) == batch

\* the batch after the write
BatchAfterFlush(batch) == <<>>

\* the flush check: when due, the batch goes to a new file and the batch and
\* its start time are reset
FlushCheck ==
    /\ pc = "flush_check"
    /\ IF FlushDue(now, hour_loop_start_time)
       THEN LET name == FileName(config_data, now, file_name)
            IN /\ file_name' = name
               /\ IF name = Unbound
                  THEN /\ Uncaught("NameError")
                       /\ UNCHANGED <<files, hour_loop_start_time,
                                      data_from_last_hour>>
                  ELSE \E written \in BOOLEAN :
                          IF written
                          THEN /\ files' =
                                     Append(files,
                                            [name |-> name,
                                             rows |-> data_from_last_hour])
                               /\ hour_loop_start_time' = DateTime(now)
                               /\ data_from_last_hour' =
                                      BatchAfterFlush(data_from_last_hour)
                               /\ pc' = "wait_input"
                               /\ UNCHANGED <<exit_status, exception>>
                          ELSE /\ Uncaught("OSError")
                               /\ UNCHANGED <<files, hour_loop_start_time,
                                              data_from_last_hour>>
       ELSE /\ pc' = "wait_input"
            /\ UNCHANGED <<exit_status, exception, file_name, files,
                           hour_loop_start_time, data_from_last_hour>>
    /\ UNCHANGED <<now, serial_device, config_data, LAST_LIGHT_SWITCH_STATE,
                   minute_loop_start_time, data_from_last_minute,
                   arduino_raw_data, data, aggregated_data, appended>>

Next ==
    \/ Connect
    \/ InitLocation
    \/ StartCycle
    \/ MinuteIteration
    \/ Aggregate
    \/ FlushCheck

Spec == Init /\ [][Next]_vars

(***************************************************************************)
(* Properties                                                              *)
(***************************************************************************)
IsDict(x) == "type" \notin DOMAIN x

SchemaFields == {CSV_FIELD_NAMES[i] : i \in 1..Len(CSV_FIELD_NAMES)}

\* the line parses to exactly one number per schema field but the time stamp
Acceptable(raw) ==
    LET r == parse_arduino_data(raw)
    IN /\ r.type = "return"
       /\ r.value /= None
       /\ Len(r.value.items) = Len(CSV_FIELD_NAMES) - 1

\* the sample in `data` is the record made from the line in arduino_raw_data
SampleAccepted ==
    /\ data /= Unbound
    /\ IsDict(data)
    /\ arduino_raw_data /= Unbound
    /\ Acceptable(arduino_raw_data)

\* C1: an accepted line's record maps every schema field but dateTime, in
\* schema order, to the number at the same position in the line, and
\* dateTime to the time stamp taken locally ("50;300" gives lights_on_time
\* 50.0, lights_off_time 300.0, dateTime the time stamp).
C1_RecordFollowsLineOrder ==
    SampleAccepted =>
        LET values == parse_arduino_data(arduino_raw_data).value.items
        IN /\ DOMAIN data = SchemaFields
           /\ \A i \in 1..Len(AggFields) : data[AggFields[i]] = values[i]
           /\ data["dateTime"].type = "str"

\* a mode parameter is configured when the configuration gives it a value
Configured(config, key) == key \in DOMAIN config /\ config[key] /= None

\* C2: every written file carries the suffix chosen in the order: manual if
\* both sunrise and sunset are configured (zero counts), else stable date
\* with the date if stable_date is configured, else days offset with the
\* offset if an integer days_offset is configured; without a sunrise and
\* sunset override a file never gets the manual suffix.
C2_SuffixFollowsConfiguredMode ==
    \A i \in 1..Len(files) :
        LET name == files[i].name
        IN IF Configured(config_data, "sunrise")
              /\ Configured(config_data, "sunset")
           THEN name.suffix = "manually_set"
           ELSE IF Configured(config_data, "stable_date")
           THEN /\ name.suffix = "stable_date"
                /\ name.value = str(config_data["stable_date"])
           ELSE /\ Configured(config_data, "days_offset")
                /\ config_data["days_offset"].type = "int"
                /\ name.suffix = "Days_offset"
                /\ name.value = str(config_data["days_offset"])

\* C3: at every flush check that the process survives, a file is written in
\* that step exactly when the wall-clock time since the batch start is at
\* least FILE_WRITE_DELAY_MINS minutes, whatever the batch holds and however
\* long the elapsed time is.
C3_FlushIffDelayElapsed ==
    [][(pc = "flush_check" /\ pc' /= "crashed") =>
          ((now - hour_loop_start_time.seconds >= FILE_WRITE_DELAY_MINS * 60)
              <=> (Len(files') = Len(files) + 1))]_vars

RECURSIVE AllRows(_)
AllRows(fs) ==
    IF fs = <<>> THEN <<>> ELSE Head(fs).rows \o AllRows(Tail(fs))

\* C4: after every successful flush the batch is empty and the batch start is
\* the current time; the files in write order followed by the batch are
\* exactly the aggregated records in the order they were appended, so a
\* record is in at most one file and a file holds the records appended since
\* the flush before it.
C4_FlushResetsBatch ==
    /\ [](AllRows(files) \o data_from_last_hour = appended)
    /\ [][Len(files') > Len(files) =>
             /\ files' = Append(files, files'[Len(files')])
             /\ files'[Len(files')].rows = data_from_last_hour
             /\ data_from_last_hour' = <<>>
             /\ hour_loop_start_time' = DateTime(now')]_vars

\* two files written, the second holding only what was appended after the
\* first flush, and the batch empty again
C4_Witness ==
    /\ Len(files) = 2
    /\ Len(appended) = 2
    /\ files[1].rows = <<appended[1]>>
    /\ files[2].rows = <<appended[2]>>
    /\ data_from_last_hour = <<>>
    /\ hour_loop_start_time = DateTime(now)

\* C5: the line parser never raises: for every line read it returns None or,
\* when every field parses, the list of all the fields' numbers.
C5_ParserNeverRaises ==
    arduino_raw_data /= Unbound =>
        LET r == parse_arduino_data(arduino_raw_data)
        IN /\ r.type = "return"
           /\ \/ r.value = None
              \/ /\ r.value.type = "list"
                 /\ \A i \in 1..Len(r.value.items) :
                        r.value.items[i].type = "float"

\* C6: a Sample Reader call whose read raises, whose line does not parse or
\* whose field count is wrong returns None and leaves the Minute Buffer as it
\* was; every record in the buffer has exactly the schema's fields.
C6_RejectedSampleIsAbsent ==
    [][pc = "minute_loop" =>
          /\ (arduino_raw_data' = Unbound \/ ~Acceptable(arduino_raw_data'))
                => /\ pc' /= "crashed"
                   /\ data' = None
                   /\ data_from_last_minute' = data_from_last_minute
          /\ \A i \in 1..Len(data_from_last_minute') :
                /\ IsDict(data_from_last_minute'[i])
                /\ DOMAIN data_from_last_minute'[i] = SchemaFields]_vars

\* C7: once the main loop is entered the process never ends on its own; the
\* only ends are the startup failures with status 1.
C7_OnlyStartupFailuresExit ==
    exit_status /= None =>
        /\ pc = "exited"
        /\ exit_status = PyInt(1)
        /\ hour_loop_start_time = Unbound

AllAggKeys ==
    {AggKey(AggFields[i], STATS[j]) :
        i \in 1..Len(AggFields), j \in 1..Len(STATS)} \cup {"dateTime"}

\* C8: the record aggregated from a Minute Buffer of at least one record has,
\* for every schema field x but dateTime, x_min, x_max and x_median equal to
\* the text of the minimum, maximum and median of x over the buffer, and
\* dateTime equal to the aggregation time.
C8_AggregatesEveryField ==
    (pc = "flush_check" /\ Len(data_from_last_minute) >= 1) =>
        /\ DOMAIN aggregated_data = AllAggKeys
        /\ aggregated_data["dateTime"] = DateTime(now)
        /\ \A i \in 1..Len(AggFields) :
              LET col == Column(data_from_last_minute, AggFields[i])
              IN /\ IsNumeric(col)
                 /\ aggregated_data[AggKey(AggFields[i], "min")] =
                        str(series_min(col).value)
                 /\ aggregated_data[AggKey(AggFields[i], "max")] =
                        str(series_max(col).value)
                 /\ aggregated_data[AggKey(AggFields[i], "median")] =
                        str(series_median(col).value)

\* C9: once 60 seconds have passed since the minute loop started, the Sample
\* Reader call in progress is the last one of the loop, whether it returns a
\* record or a rejection: the cycle goes on to the aggregation.
C9_MinuteLoopEndsAfterAMinute ==
    [][(/\ pc = "minute_loop"
        /\ now - minute_loop_start_time.seconds >= MINUTE_LOOP_SECONDS
        /\ pc' /= "crashed") => pc' = "aggregate"]_vars

\* C10: the aggregator is never given an empty Minute Buffer (when the minute
\* loop has ended the buffer holds at least one accepted record), and a
\* written file is never empty: its last row is the record aggregated in the
\* cycle of the flush.
C10_NeverEmpty ==
    /\ [](pc \in {"aggregate", "flush_check"} =>
             /\ Len(data_from_last_minute) >= 1
             /\ \A i \in 1..Len(data_from_last_minute) :
                   IsDict(data_from_last_minute[i]))
    /\ [][Len(files') > Len(files) =>
             LET rows == files'[Len(files')].rows
             IN /\ Len(rows) >= 1
                /\ rows[Len(rows)] = aggregated_data]_vars

\* a minute loop ended with two records in the buffer and the flush of that
\* cycle wrote a file of two rows
C10_Witness ==
    /\ pc = "wait_input"
    /\ Len(data_from_last_minute) = 2
    /\ Len(files) = 1
    /\ Len(files[1].rows) = 2
    /\ data_from_last_hour = <<>>
====
